---- MODULE Spec2Model ----
(***************************************************************************)
(* Model of bzt/resources/selenium_extras.py: locator resolution with      *)
(* fallback, JavaScript dialog interception and window navigation.         *)
(*                                                                         *)
(* Three specifications share the variables below:                         *)
(*   SpecLocator  get_locator against a driver and a page                  *)
(*   SpecDialogs  the page-side dialog overrides and their Python helpers  *)
(*   SpecWindows  WindowManager over the driver's window handles           *)
(***************************************************************************)
EXTENDS Integers, Sequences, FiniteSets, TLC

VARIABLES
    timeout_store,   \* thread store entry "timeout": <<>> when absent, <<n>> otherwise
    implicit_wait,   \* the driver's current implicit wait
    page_delay,      \* page: (selector kind, value) -> delay after which an element exists
    loc_last,        \* observation of the last get_locator call
    window,          \* JavaScript page globals touched by the dialog scripts
    dlg_log,         \* per dialog kind, the arguments of every intercepted invocation
    dlg_popped,      \* per dialog kind, how many dialogs_get_next_<kind> took an entry
    dlg_preset,      \* per dialog kind, the answer pre-set since the last invocation
    dlg_last,        \* observation of the last dialog operation
    handles,         \* driver.window_handles
    focus,           \* handle the driver is focused on, NoWindow when it was closed
    next_handle,     \* next fresh window handle
    windows,         \* WindowManager.windows
    win_last         \* observation of the last WindowManager operation

vars == <<timeout_store, implicit_wait, page_delay, loc_last,
          window, dlg_log, dlg_popped, dlg_preset, dlg_last,
          handles, focus, next_handle, windows, win_last>>

locVars == <<timeout_store, implicit_wait, page_delay, loc_last>>
dlgVars == <<window, dlg_log, dlg_popped, dlg_preset, dlg_last>>
winVars == <<handles, focus, next_handle, windows, win_last>>

(***************************************************************************)
(* Bounds                                                                  *)
(***************************************************************************)
MaxLocators == 3
MaxDialogs == 2
MaxHandles == 3

RECURSIVE SeqsUpTo(_, _)
SeqsUpTo(S, n) ==
    IF n = 0 THEN {<<>>}
    ELSE LET shorter == SeqsUpTo(S, n - 1)
         IN  shorter \cup {Append(s, x) : s \in {t \in shorter : Len(t) = n - 1}, x \in S}

(***************************************************************************)
(* Locator resolution                                                      *)
(***************************************************************************)
BYS == [xpath |-> "xpath", css |-> "css selector", name |-> "name",
        id |-> "id", linktext |-> "link text"]

\* str.lower() on the strategy tags that are passed in
Lower(tag) ==
    CASE tag = "ID" -> "id"
      [] tag = "CSS" -> "css"
      [] tag = "XPath" -> "xpath"
      [] OTHER -> tag

DefaultTimeout == 30

\* _get_timeout with "if not timeout": a stored 0 is taken for an absent entry
_get_timeout_falsy(store) ==
    IF store = <<>> \/ store[1] = 0 THEN DefaultTimeout ELSE store[1]

\* _get_timeout: an absent (None) entry gives the default, 0 is kept
_get_timeout(store) ==
    LET truthy == store # <<>> /\ store[1] # 0
        isZero == store # <<>> /\ store[1] = 0
    IN  IF ~(truthy \/ isZero) THEN DefaultTimeout ELSE store[1]

Never == 99

\* driver.find_elements: number of elements the driver reports for a selector
\* under the given implicit wait
find_elements(page, by, value, wait) ==
    IF page[<<by, value>>] <= wait THEN 1 ELSE 0

\* the for loop of get_locator from candidate i on; first is <<>> for None
RECURSIVE LocatorLoop(_, _, _, _, _, _)
LocatorLoop(page, locators, i, first, wait, lookups) ==
    IF i > Len(locators)
    THEN [broke |-> FALSE, locator |-> <<>>, first |-> first,
          wait |-> wait, lookups |-> lookups]
    ELSE LET locator_type == locators[i][1]
             locator_value == locators[i][2]
             by == BYS[Lower(locator_type)]
             first1 == IF first = <<>> THEN <<by, locator_value>> ELSE first
             wait1 == IF first = <<>> THEN wait ELSE 0
             n == find_elements(page, by, locator_value, wait1)
             lookups1 == Append(lookups, [by |-> by, value |-> locator_value,
                                          wait |-> wait1, n |-> n])
         IN  IF n > 0
             THEN [broke |-> TRUE, locator |-> <<by, locator_value>>, first |-> first1,
                   wait |-> wait1, lookups |-> lookups1]
             ELSE LocatorLoop(page, locators, i + 1, first1, wait1, lookups1)

\* get_locator returning the first candidate, as its docstring words it
get_locator_first(page, store, wait0, locators, ignore_implicit_wait) ==
    LET timeout == _get_timeout(store)
        wait1 == IF ignore_implicit_wait THEN 0 ELSE wait0
        r == LocatorLoop(page, locators, 1, <<>>, wait1, <<>>)
    IN  IF r.broke
        THEN [exit |-> "return", locator |-> r.first, msg |-> <<>>,
              wait |-> timeout, lookups |-> r.lookups]
        ELSE IF r.first = <<>>
             THEN [exit |-> "TypeError", locator |-> <<>>, msg |-> <<>>,
                   wait |-> timeout, lookups |-> r.lookups]
             ELSE [exit |-> "NoSuchElementException", locator |-> <<>>,
                   msg |-> <<"Element not found">> \o r.first,
                   wait |-> timeout, lookups |-> r.lookups]

\* get_locator without the ignore_implicit_wait branch
get_locator_noflag(page, store, wait0, locators, ignore_implicit_wait) ==
    LET timeout == _get_timeout(store)
        r == LocatorLoop(page, locators, 1, <<>>, wait0, <<>>)
    IN  IF r.broke
        THEN [exit |-> "return", locator |-> r.locator, msg |-> <<>>,
              wait |-> timeout, lookups |-> r.lookups]
        ELSE IF r.first = <<>>
             THEN [exit |-> "TypeError", locator |-> <<>>, msg |-> <<>>,
                   wait |-> timeout, lookups |-> r.lookups]
             ELSE [exit |-> "NoSuchElementException", locator |-> <<>>,
                   msg |-> <<"Element not found">> \o r.first,
                   wait |-> timeout, lookups |-> r.lookups]

\* get_locator as a whole: the exit taken, the value returned or the error
\* raised, the implicit wait left behind and the lookups made
get_locator(page, store, wait0, locators, ignore_implicit_wait) ==
    LET timeout == _get_timeout(store)
        wait1 == IF ignore_implicit_wait THEN 0 ELSE wait0
        r == LocatorLoop(page, locators, 1, <<>>, wait1, <<>>)
    IN  IF r.broke
        THEN [exit |-> "return", locator |-> r.locator, msg |-> <<>>,
              wait |-> timeout, lookups |-> r.lookups]
        ELSE IF r.first = <<>>
             THEN \* "(%s, %s)" % None: not enough arguments for format string
                  [exit |-> "TypeError", locator |-> <<>>, msg |-> <<>>,
                   wait |-> timeout, lookups |-> r.lookups]
             ELSE [exit |-> "NoSuchElementException", locator |-> <<>>,
                   msg |-> <<"Element not found">> \o r.first,
                   wait |-> timeout, lookups |-> r.lookups]

Tags == {"id", "CSS"}
Values == {"a", "b"}
Selectors == {BYS[Lower(t)] : t \in Tags} \X Values
Delays == {0, 3, Never}
StoreValues == {<<>>, <<0>>, <<5>>}
EntryWaits == {0, 5, 30}
LocatorLists == SeqsUpTo(Tags \X Values, MaxLocators)

NotCalled == [exit |-> "none", locators |-> <<>>, ignore |-> FALSE, entry_wait |-> 0,
              locator |-> <<>>, msg |-> <<>>, lookups |-> <<>>]

GetLocator ==
    /\ loc_last.exit = "none"
    /\ \E locators \in LocatorLists, ignore \in BOOLEAN :
          LET r == get_locator(page_delay, timeout_store, implicit_wait, locators, ignore)
          IN  /\ implicit_wait' = r.wait
              /\ loc_last' = [exit |-> r.exit, locators |-> locators, ignore |-> ignore,
                              entry_wait |-> implicit_wait, locator |-> r.locator,
                              msg |-> r.msg, lookups |-> r.lookups]
    /\ UNCHANGED <<timeout_store, page_delay>>
    /\ UNCHANGED dlgVars
    /\ UNCHANGED winVars

(***************************************************************************)
(* Dialog interception                                                     *)
(*                                                                         *)
(* JavaScript values are tuples of strings: <<"undefined">>, <<"null">>,   *)
(* <<"bool", b>> and <<"str", c1, ..., cn>>.  A page global holding an     *)
(* array is <<q>> (q the array's elements) and <<>> while it is undefined. *)
(* Python strings are sequences of characters.                             *)
(***************************************************************************)
Undefined == <<"undefined">>
Null == <<"null">>
JsTrue == <<"bool", "true">>
JsFalse == <<"bool", "false">>
Str(s) == <<"str">> \o s

\* JavaScript ToBoolean on the values above
Truthy(v) ==
    \/ v[1] = "bool" /\ v[2] = "true"
    \/ v[1] = "str" /\ Len(v) > 1

\* t.replace(/\n/g, ' ')
ReplaceNewlines(v) ==
    [i \in 1..Len(v) |-> IF i > 1 /\ v[i] = "\n" THEN " " ELSE v[i]]

LowerChar(c) ==
    CASE c = "O" -> "o"
      [] c = "K" -> "k"
      [] c = "C" -> "c"
      [] OTHER -> c

\* str(value).lower()
PyLower(value) == [i \in 1..Len(value) |-> LowerChar(value[i])]

OkToken == <<"#", "o", "k">>
CancelToken == <<"#", "c", "a", "n", "c", "e", "l">>

\* The JavaScript parser on the statement  window.__webdriverNextPrompt = '<value>';
\* built by  "... = '%s';" % value : the literal opened by the first quote is read
\* up to the first unescaped quote; a backslash takes the next character with it.
\* The statement parses only when that closing quote is the one the format string
\* supplies, i.e. when the scan consumes exactly the whole of value.
RECURSIVE ScanLiteral(_, _, _)
ScanLiteral(src, i, acc) ==
    IF i > Len(src) THEN [ok |-> FALSE, str |-> acc]
    ELSE IF src[i] = "'" THEN [ok |-> i = Len(src), str |-> acc]
    ELSE IF src[i] = "\\"
         THEN IF i + 1 > Len(src) THEN [ok |-> FALSE, str |-> acc]
              ELSE ScanLiteral(src, i + 2, Append(acc, src[i + 1]))
    ELSE ScanLiteral(src, i + 1, Append(acc, src[i]))

JsStringLiteral(value) == ScanLiteral(Append(value, "'"), 1, <<>>)

PageBefore ==
    [alert |-> "native", confirm |-> "native", prompt |-> "native",
     Alerts |-> <<>>, OriginalAlert |-> "undefined", NextAlert |-> Undefined,
     Confirms |-> <<>>, NextConfirm |-> Undefined, PrevConfirm |-> "undefined",
     Prompts |-> <<>>, NextPrompts |-> Undefined, NextPrompt |-> Undefined]

\* dialogs_replace without the sentinel check
dialogs_replace_unguarded(w) ==
    [w EXCEPT !.Alerts = << <<>> >>,
              !.OriginalAlert = w.alert,
              !.NextAlert = Null,
              !.alert = "override",
              !.Confirms = << <<>> >>,
              !.NextConfirm = Null,
              !.PrevConfirm = w.confirm,
              !.confirm = "override",
              !.Prompts = << <<>> >>,
              !.NextPrompts = JsTrue,
              !.prompt = "override"]

\* the script of dialogs_replace
dialogs_replace(w) ==
    IF w.Alerts # <<>> THEN w
    ELSE [w EXCEPT !.Alerts = << <<>> >>,
                   !.OriginalAlert = w.alert,
                   !.NextAlert = Null,
                   !.alert = "override",
                   !.Confirms = << <<>> >>,
                   !.NextConfirm = Null,
                   !.PrevConfirm = w.confirm,
                   !.confirm = "override",
                   !.Prompts = << <<>> >>,
                   !.NextPrompts = JsTrue,
                   !.prompt = "override"]

\* window.alert with the test on the pending acknowledgment inverted
AlertOverrideInverted(w, msg) ==
    [native |-> w.NextAlert # Null,
     ret |-> Undefined,
     w |-> [w EXCEPT !.NextAlert = Null,
                     !.Alerts = <<Append(w.Alerts[1], msg)>>]]

\* the function installed as window.alert
AlertOverride(w, msg) ==
    [native |-> w.NextAlert = Null,
     ret |-> Undefined,
     w |-> [w EXCEPT !.NextAlert = Null,
                     !.Alerts = <<Append(w.Alerts[1], msg)>>]]

\* the function installed as window.confirm; answer is what the user gives the
\* native dialog when it is shown
ConfirmOverride(w, msg, answer) ==
    LET w1 == [w EXCEPT !.Confirms = <<Append(w.Confirms[1], msg)>>]
        res == w1.NextConfirm
    IN  IF res = Null
        THEN [native |-> TRUE, ret |-> answer, w |-> w1]
        ELSE [native |-> FALSE, ret |-> res, w |-> [w1 EXCEPT !.NextConfirm = Null]]

\* the function installed as window.prompt
PromptOverride(w, msg, def) ==
    LET w1 == [w EXCEPT !.Prompts = <<Append(w.Prompts[1], IF Truthy(msg) THEN msg ELSE def)>>]
    IN  [native |-> FALSE, ret |-> w1.NextPrompt, w |-> [w1 EXCEPT !.NextPrompt = JsTrue]]

\* Array.prototype.pop in place of shift
ShiftLast(q) ==
    IF q = <<>> THEN [t |-> Undefined, q |-> <<>>]
    ELSE [t |-> q[Len(q)], q |-> SubSeq(q, 1, Len(q) - 1)]

\* Array.prototype.shift
Shift(q) == IF q = <<>> THEN [t |-> Undefined, q |-> <<>>] ELSE [t |-> Head(q), q |-> Tail(q)]

dialogs_get_next_confirm(w) ==
    IF w.Confirms = <<>> THEN [ret |-> Null, w |-> w]
    ELSE LET s == Shift(w.Confirms[1])
         IN  [ret |-> s.t, w |-> [w EXCEPT !.Confirms = <<s.q>>]]

dialogs_get_next_alert(w) ==
    IF w.Alerts = <<>> THEN [ret |-> Null, w |-> w]
    ELSE LET s == Shift(w.Alerts[1])
         IN  [ret |-> IF Truthy(s.t) THEN ReplaceNewlines(s.t) ELSE s.t,
              w |-> [w EXCEPT !.Alerts = <<s.q>>]]

dialogs_get_next_prompt(w) ==
    IF w.Prompts = <<>> THEN [ret |-> Null, w |-> w]
    ELSE LET s == Shift(w.Prompts[1])
         IN  [ret |-> s.t, w |-> [w EXCEPT !.Prompts = <<s.q>>]]

dialogs_answer_on_next_alert(w, value) ==
    IF PyLower(value) = OkToken
    THEN [exc |-> "none", w |-> [w EXCEPT !.NextAlert = JsTrue]]
    ELSE [exc |-> "none", w |-> w]

dialogs_answer_on_next_prompt(w, value) ==
    IF PyLower(value) = CancelToken
    THEN [exc |-> "none", w |-> [w EXCEPT !.NextPrompt = Null]]
    ELSE LET lit == JsStringLiteral(value)
         IN  IF lit.ok
             THEN [exc |-> "none", w |-> [w EXCEPT !.NextPrompt = Str(lit.str)]]
             ELSE [exc |-> "JavascriptException", w |-> w]

dialogs_answer_on_next_confirm(w, value) ==
    LET confirm == IF PyLower(value) = OkToken THEN JsTrue ELSE JsFalse
    IN  [exc |-> "none", w |-> [w EXCEPT !.NextConfirm = confirm]]

Messages == {<<>>, <<"x", "\n">>}
PromptArgs == {<<Str(<<"x", "\n">>), Undefined>>, <<Str(<<>>), Str(<<"d">>)>>, <<Str(<<>>), Undefined>>}
AlertAnswers == {OkToken, <<"a">>}
ConfirmAnswers == {<<"#", "O", "K">>, CancelToken}
PromptAnswers == {CancelToken, <<"a">>, <<"'">>, <<"\\", "a">>}

Intercepted == Len(dlg_log.alert) + Len(dlg_log.confirm) + Len(dlg_log.prompt)

NoDialogOp == [op |-> "none", ret |-> Undefined, native |-> FALSE, preset |-> <<>>,
               took |-> FALSE, exc |-> "none"]

DialogsReplace ==
    /\ window' = dialogs_replace(window)
    /\ dlg_last' = [NoDialogOp EXCEPT !.op = "dialogs_replace"]
    /\ UNCHANGED <<dlg_log, dlg_popped, dlg_preset>>
    /\ UNCHANGED locVars
    /\ UNCHANGED winVars

\* the page calls window.alert(msg)
PageAlert ==
    /\ \E m \in Messages :
          IF window.alert = "override"
          THEN LET r == AlertOverride(window, Str(m))
               IN  /\ Intercepted < MaxDialogs
                   /\ window' = r.w
                   /\ dlg_log' = [dlg_log EXCEPT !.alert = Append(@, <<Str(m), Undefined>>)]
                   /\ dlg_preset' = [dlg_preset EXCEPT !.alert = <<>>]
                   /\ dlg_last' = [op |-> "alert", ret |-> r.ret, native |-> r.native,
                                   preset |-> dlg_preset.alert, took |-> FALSE, exc |-> "none"]
          ELSE /\ dlg_last' = [NoDialogOp EXCEPT !.op = "alert", !.native = TRUE]
               /\ UNCHANGED <<window, dlg_log, dlg_preset>>
    /\ UNCHANGED dlg_popped
    /\ UNCHANGED locVars
    /\ UNCHANGED winVars

\* the page calls window.confirm(msg)
PageConfirm ==
    /\ \E m \in Messages, answer \in {JsTrue, JsFalse} :
          IF window.confirm = "override"
          THEN LET r == ConfirmOverride(window, Str(m), answer)
               IN  /\ Intercepted < MaxDialogs
                   /\ window' = r.w
                   /\ dlg_log' = [dlg_log EXCEPT !.confirm = Append(@, <<Str(m), Undefined>>)]
                   /\ dlg_preset' = [dlg_preset EXCEPT !.confirm = <<>>]
                   /\ dlg_last' = [op |-> "confirm", ret |-> r.ret, native |-> r.native,
                                   preset |-> dlg_preset.confirm, took |-> FALSE, exc |-> "none"]
          ELSE /\ dlg_last' = [NoDialogOp EXCEPT !.op = "confirm", !.native = TRUE,
                                                 !.ret = answer]
               /\ UNCHANGED <<window, dlg_log, dlg_preset>>
    /\ UNCHANGED dlg_popped
    /\ UNCHANGED locVars
    /\ UNCHANGED winVars

\* the page calls window.prompt(msg, def)
PagePrompt ==
    /\ \E args \in PromptArgs :
          IF window.prompt = "override"
          THEN LET r == PromptOverride(window, args[1], args[2])
               IN  /\ Intercepted < MaxDialogs
                   /\ window' = r.w
                   /\ dlg_log' = [dlg_log EXCEPT !.prompt = Append(@, args)]
                   /\ dlg_preset' = [dlg_preset EXCEPT !.prompt = <<>>]
                   /\ dlg_last' = [op |-> "prompt", ret |-> r.ret, native |-> r.native,
                                   preset |-> dlg_preset.prompt, took |-> FALSE, exc |-> "none"]
          ELSE /\ dlg_last' = [NoDialogOp EXCEPT !.op = "prompt", !.native = TRUE]
               /\ UNCHANGED <<window, dlg_log, dlg_preset>>
    /\ UNCHANGED dlg_popped
    /\ UNCHANGED locVars
    /\ UNCHANGED winVars

\* one of dialogs_get_next_alert / _confirm / _prompt; took tells whether an
\* intercepted dialog of that kind was still waiting to be retrieved
GetNext(kind, r) ==
    LET took == dlg_popped[kind] < Len(dlg_log[kind])
    IN  /\ window' = r.w
        /\ dlg_popped' = [dlg_popped EXCEPT ![kind] = IF took THEN @ + 1 ELSE @]
        /\ dlg_last' = [NoDialogOp EXCEPT !.op = "get_next_" \o kind, !.ret = r.ret,
                                          !.took = took]
        /\ UNCHANGED <<dlg_log, dlg_preset>>
        /\ UNCHANGED locVars
        /\ UNCHANGED winVars

GetNextAlert == GetNext("alert", dialogs_get_next_alert(window))

GetNextConfirm == GetNext("confirm", dialogs_get_next_confirm(window))

GetNextPrompt == GetNext("prompt", dialogs_get_next_prompt(window))

\* one of dialogs_answer_on_next_alert / _confirm / _prompt called with value;
\* the pre-set is remembered only once the overrides are installed
AnswerOnNext(kind, r, value) ==
    /\ window' = r.w
    /\ dlg_preset' = IF window.alert = "override"
                     THEN [dlg_preset EXCEPT ![kind] = <<value>>]
                     ELSE dlg_preset
    /\ dlg_last' = [NoDialogOp EXCEPT !.op = "answer_on_next_" \o kind, !.exc = r.exc]
    /\ UNCHANGED <<dlg_log, dlg_popped>>
    /\ UNCHANGED locVars
    /\ UNCHANGED winVars

AnswerOnNextAlert ==
    \E value \in AlertAnswers :
        AnswerOnNext("alert", dialogs_answer_on_next_alert(window, value), value)

AnswerOnNextConfirm ==
    \E value \in ConfirmAnswers :
        AnswerOnNext("confirm", dialogs_answer_on_next_confirm(window, value), value)

AnswerOnNextPrompt ==
    \E value \in PromptAnswers :
        AnswerOnNext("prompt", dialogs_answer_on_next_prompt(window, value), value)

(***************************************************************************)
(* Window navigation                                                       *)
(*                                                                         *)
(* Window handles are the numbers 1, 2, ...; window names are sequences of *)
(* characters, <<>> standing for None or the empty string.                 *)
(***************************************************************************)
NoWindow == 0

Digits == <<"0", "1", "2", "3", "4", "5", "6", "7", "8", "9">>
DigitVal(c) == CHOOSE d \in 0..9 : Digits[d + 1] = c

\* str.isdigit()
isdigit(name) == name # <<>> /\ \A i \in 1..Len(name) : \E d \in 1..10 : Digits[d] = name[i]

\* int() on a string of digits
RECURSIVE int(_)
int(name) ==
    IF name = <<>> THEN 0
    ELSE 10 * int(SubSeq(name, 1, Len(name) - 1)) + DigitVal(name[Len(name)])

\* str.startswith()
startswith(name, prefix) ==
    Len(name) >= Len(prefix) /\ SubSeq(name, 1, Len(prefix)) = prefix

WinSerPrefix == <<"w", "i", "n", "_", "s", "e", "r", "_">>
WinSerLocal == WinSerPrefix \o <<"l", "o", "c", "a", "l">>

\* the name under which the driver knows the window with handle h
HandleName(h) == <<"h", Digits[h + 1]>>

\* driver.switch_to.window(handle)
SwitchToHandle(hs, foc, h) ==
    IF \E i \in 1..Len(hs) : hs[i] = h
    THEN [exc |-> "none", focus |-> h]
    ELSE [exc |-> "NoSuchWindowException", focus |-> foc]

\* driver.switch_to.window(name) with a literal window name
SwitchToName(hs, foc, name) ==
    IF \E i \in 1..Len(hs) : HandleName(hs[i]) = name
    THEN [exc |-> "none", focus |-> CHOOSE h \in {hs[i] : i \in 1..Len(hs)} : HandleName(h) = name]
    ELSE [exc |-> "NoSuchWindowException", focus |-> foc]

\* WindowManager._switch_by_idx
_switch_by_idx(hs, foc, win_index) ==
    IF Len(hs) <= win_index /\ win_index >= 0
    THEN IF win_index < Len(hs)
         THEN SwitchToHandle(hs, foc, hs[win_index + 1])
         ELSE [exc |-> "IndexError", focus |-> foc]
    ELSE [exc |-> "NoSuchWindowException", focus |-> foc]

\* _switch_by_win_ser recording the last handle on every reference
_switch_by_win_ser_recapture(hs, foc, wins, window_name) ==
    IF window_name = WinSerLocal
    THEN IF Len(hs) > 0
         THEN [windows |-> wins] @@ SwitchToHandle(hs, foc, hs[1])
         ELSE [windows |-> wins, exc |-> "NoSuchWindowException", focus |-> foc]
    ELSE IF Len(hs) = 0
         THEN [windows |-> wins, exc |-> "IndexError", focus |-> foc]
         ELSE LET wins1 == [a \in DOMAIN wins \cup {window_name} |->
                               IF a = window_name THEN hs[Len(hs)] ELSE wins[a]]
              IN  [windows |-> wins1] @@ SwitchToHandle(hs, foc, wins1[window_name])

\* WindowManager._switch_by_win_ser
_switch_by_win_ser(hs, foc, wins, window_name) ==
    IF window_name = WinSerLocal
    THEN IF Len(hs) > 0
         THEN [windows |-> wins] @@ SwitchToHandle(hs, foc, hs[1])
         ELSE [windows |-> wins, exc |-> "NoSuchWindowException", focus |-> foc]
    ELSE IF window_name \notin DOMAIN wins /\ Len(hs) = 0
         THEN [windows |-> wins, exc |-> "IndexError", focus |-> foc]
         ELSE LET wins1 == IF window_name \notin DOMAIN wins
                           THEN [a \in DOMAIN wins \cup {window_name} |->
                                    IF a = window_name THEN hs[Len(hs)] ELSE wins[a]]
                           ELSE wins
              IN  [windows |-> wins1] @@ SwitchToHandle(hs, foc, wins1[window_name])

\* WindowManager.switch: NoSuchWindowException is re-raised with the requested
\* name in its message, any other error propagates
switch(hs, foc, wins, window_name) ==
    LET r == IF window_name = <<>>
             THEN IF Len(hs) = 0
                  THEN [windows |-> wins, exc |-> "IndexError", focus |-> foc]
                  ELSE [windows |-> wins] @@ SwitchToHandle(hs, foc, hs[Len(hs)])
             ELSE IF isdigit(window_name)
                  THEN [windows |-> wins] @@ _switch_by_idx(hs, foc, int(window_name))
                  ELSE IF startswith(window_name, WinSerPrefix)
                       THEN _switch_by_win_ser(hs, foc, wins, window_name)
                       ELSE [windows |-> wins] @@ SwitchToName(hs, foc, window_name)
    IN  [exc |-> r.exc, focus |-> r.focus, windows |-> r.windows,
         msg |-> IF r.exc = "NoSuchWindowException"
                 THEN <<"Invalid Window ID">> \o window_name ELSE <<>>]

\* WindowManager.close
close(hs, foc, wins, window_name) ==
    LET s == IF window_name # <<>> THEN switch(hs, foc, wins, window_name)
             ELSE [exc |-> "none", focus |-> foc, windows |-> wins, msg |-> <<>>]
    IN  IF s.exc # "none" THEN [handles |-> hs] @@ s
        ELSE IF \E i \in 1..Len(hs) : hs[i] = s.focus
             THEN [handles |-> SelectSeq(hs, LAMBDA h : h # s.focus), exc |-> "none",
                   focus |-> NoWindow, windows |-> s.windows, msg |-> <<>>]
             ELSE [handles |-> hs, exc |-> "NoSuchWindowException", focus |-> s.focus,
                   windows |-> s.windows, msg |-> <<>>]

WindowNames ==
    {<<>>, WinSerLocal, WinSerPrefix \o <<"a">>, WinSerPrefix \o <<"b">>,
     HandleName(1), <<"x">>}
        \cup {<<Digits[n + 1]>> : n \in 0..MaxHandles}

NoWindowOp == [op |-> "none", name |-> <<>>, exc |-> "none", msg |-> <<>>,
               focus_before |-> NoWindow]

\* the browser opens a new window; the driver stays on the current one
OpenWindow ==
    /\ next_handle <= MaxHandles
    /\ handles' = Append(handles, next_handle)
    /\ next_handle' = next_handle + 1
    /\ win_last' = [NoWindowOp EXCEPT !.op = "open"]
    /\ UNCHANGED <<focus, windows>>
    /\ UNCHANGED locVars
    /\ UNCHANGED dlgVars

Switch ==
    /\ \E window_name \in WindowNames :
          LET r == switch(handles, focus, windows, window_name)
          IN  /\ focus' = r.focus
              /\ windows' = r.windows
              /\ win_last' = [op |-> "switch", name |-> window_name, exc |-> r.exc,
                              msg |-> r.msg, focus_before |-> focus]
    /\ UNCHANGED <<handles, next_handle>>
    /\ UNCHANGED locVars
    /\ UNCHANGED dlgVars

\* closing the last window ends the browser session, so one window is kept
Close ==
    /\ Len(handles) > 1
    /\ \E window_name \in WindowNames :
          LET r == close(handles, focus, windows, window_name)
          IN  /\ handles' = r.handles
              /\ focus' = r.focus
              /\ windows' = r.windows
              /\ win_last' = [op |-> "close", name |-> window_name, exc |-> r.exc,
                              msg |-> r.msg, focus_before |-> focus]
    /\ UNCHANGED next_handle
    /\ UNCHANGED locVars
    /\ UNCHANGED dlgVars

(***************************************************************************)
(* Specifications                                                          *)
(***************************************************************************)
LocIdle ==
    /\ timeout_store = <<>>
    /\ implicit_wait = DefaultTimeout
    /\ page_delay = [s \in Selectors |-> Never]
    /\ loc_last = NotCalled

DlgIdle ==
    /\ window = PageBefore
    /\ dlg_log = [alert |-> <<>>, confirm |-> <<>>, prompt |-> <<>>]
    /\ dlg_popped = [alert |-> 0, confirm |-> 0, prompt |-> 0]
    /\ dlg_preset = [alert |-> <<>>, confirm |-> <<>>, prompt |-> <<>>]
    /\ dlg_last = NoDialogOp

WinIdle ==
    /\ handles = <<1>>
    /\ focus = 1
    /\ next_handle = 2
    /\ windows = [a \in {} |-> NoWindow]
    /\ win_last = NoWindowOp

InitLocator ==
    /\ timeout_store \in StoreValues
    /\ implicit_wait \in EntryWaits
    /\ page_delay \in [Selectors -> Delays]
    /\ loc_last = NotCalled
    /\ DlgIdle
    /\ WinIdle

SpecLocator == InitLocator /\ [][GetLocator]_vars

InitDialogs == LocIdle /\ DlgIdle /\ WinIdle

NextDialogs ==
    \/ DialogsReplace
    \/ PageAlert
    \/ PageConfirm
    \/ PagePrompt
    \/ GetNextAlert
    \/ GetNextConfirm
    \/ GetNextPrompt
    \/ AnswerOnNextAlert
    \/ AnswerOnNextConfirm
    \/ AnswerOnNextPrompt

SpecDialogs == InitDialogs /\ [][NextDialogs]_vars

InitWindows == LocIdle /\ DlgIdle /\ WinIdle

NextWindows == OpenWindow \/ Switch \/ Close

SpecWindows == InitWindows /\ [][NextWindows]_vars

(***************************************************************************)
(* Properties of get_locator (SpecLocator)                                 *)
(***************************************************************************)
Called == loc_last.exit # "none"

\* the implicit wait the k-th candidate of the last call is looked up with
WaitAt(k) == IF k = 1 /\ ~loc_last.ignore THEN loc_last.entry_wait ELSE 0

\* the selector kind of the k-th candidate of the last call
KindAt(k) == BYS[Lower(loc_last.locators[k][1])]

\* what the driver reports for the k-th candidate of the last call
Reports(k) == IF page_delay[<<KindAt(k), loc_last.locators[k][2]>>] <= WaitAt(k) THEN 1 ELSE 0

FirstMatch(k) == Reports(k) > 0 /\ \A j \in 1..(k - 1) : Reports(j) = 0

NoMatch == \A k \in 1..Len(loc_last.locators) : Reports(k) = 0

\* C1: when the k-th candidate is the first one the driver reports an element
\* for, get_locator returns the pair (BYS kind of its tag, its value)
C1_FirstMatchReturned ==
    Called =>
        \A k \in 1..Len(loc_last.locators) :
            FirstMatch(k) =>
                /\ loc_last.exit = "return"
                /\ loc_last.locator = <<KindAt(k), loc_last.locators[k][2]>>

\* the second of three candidates is returned although the third matches too
C1_Witness ==
    /\ loc_last.exit = "return"
    /\ Len(loc_last.locators) = 3
    /\ FirstMatch(2)
    /\ Reports(3) > 0
    /\ loc_last.locators[1] # loc_last.locators[2]
    /\ loc_last.locators[3] # loc_last.locators[2]
    /\ loc_last.locator = <<"css selector", "b">>

\* C2: when no candidate matches, get_locator raises NoSuchElementException
\* whose message names the first candidate, and no other error
C2_NoMatchRaisesNotFound ==
    (Called /\ NoMatch) =>
        /\ loc_last.exit = "NoSuchElementException"
        /\ loc_last.msg = <<"Element not found", KindAt(1), loc_last.locators[1][2]>>

C10_LookupsInOrder ==
    Called =>
        LET n == Len(loc_last.locators)
            K == IF NoMatch THEN n ELSE CHOOSE k \in 1..n : FirstMatch(k)
        IN  loc_last.lookups =
                [i \in 1..K |-> [by |-> KindAt(i), value |-> loc_last.locators[i][2],
                                 wait |-> WaitAt(i), n |-> Reports(i)]]

\* flag off: first lookup under the entry wait, second under 0 and matching,
\* the third candidate never looked up
C10_Witness ==
    /\ Called
    /\ ~loc_last.ignore
    /\ Len(loc_last.locators) = 3
    /\ Len(loc_last.lookups) = 2
    /\ loc_last.lookups[1].wait = 5
    /\ loc_last.lookups[1].n = 0
    /\ loc_last.lookups[2].wait = 0
    /\ loc_last.lookups[2].n = 1

(***************************************************************************)
(* Properties of the dialog interception (SpecDialogs)                     *)
(***************************************************************************)
LastOf(q) == q[Len(q)]

AlertCaptured ==
    /\ window.Alerts # <<>>
    /\ window.Alerts[1] # <<>>
    /\ LastOf(window.Alerts[1]) = LastOf(dlg_log.alert)[1]

AckedAlert == dlg_last.op = "alert" /\ dlg_last.preset = <<OkToken>>

\* C4 as stated: after dialogs_answer_on_next_alert("#ok") the next alert
\* reaches the original alert dialog, and its message is captured
C4_AckedAlertShown == AckedAlert => (dlg_last.native /\ AlertCaptured)

\* C4 amended: after dialogs_answer_on_next_alert("#ok") the next alert is
\* suppressed (the original alert is not called), the acknowledgment is reset
\* to null, and its message is captured
C4_AckedAlertSuppressed ==
    AckedAlert => (~dlg_last.native /\ window.NextAlert = Null /\ AlertCaptured)

C4_Witness == AckedAlert /\ Len(window.Alerts[1]) = 2

\* C5: once installed, dialogs_replace leaves every page global as it was
C5_ReplaceIdempotent ==
    [][(window.alert = "override" /\ dlg_last'.op = "dialogs_replace") => window' = window]_vars

\* a dialogs_replace that found messages queued and answers pending
C5_Witness ==
    /\ dlg_last.op = "dialogs_replace"
    /\ window.alert = "override"
    /\ window.OriginalAlert = "native"
    /\ window.Alerts[1] # <<>>
    /\ window.Prompts[1] # <<>>
    /\ window.NextConfirm = JsFalse
    /\ window.NextAlert = JsTrue

\* what the override of a kind stores for an invocation <<msg, def>>
Captured(kind, e) == IF kind = "prompt" /\ e[1] = Str(<<>>) THEN e[2] ELSE e[1]

\* what dialogs_get_next_<kind> hands back for a stored message
Retrieved(kind, v) ==
    IF kind = "alert" THEN [i \in 1..Len(v) |-> IF v[i] = "\n" THEN " " ELSE v[i]] ELSE v

QueueOf(kind) ==
    CASE kind = "alert" -> window.Alerts
      [] kind = "confirm" -> window.Confirms
      [] kind = "prompt" -> window.Prompts

C9_PresetAnswersOneShot ==
    /\ (dlg_last.op = "confirm" /\ dlg_last.preset # <<>>) =>
           /\ ~dlg_last.native
           /\ dlg_last.ret = IF PyLower(dlg_last.preset[1]) = OkToken THEN JsTrue ELSE JsFalse
           /\ window.NextConfirm = Null
    /\ (dlg_last.op = "confirm" /\ dlg_last.preset = <<>>) => dlg_last.native
    /\ (dlg_last.op = "prompt" /\ dlg_last.preset # <<>>) =>
           /\ dlg_last.ret = IF PyLower(dlg_last.preset[1]) = CancelToken
                             THEN Null ELSE Str(dlg_last.preset[1])
           /\ window.NextPrompt = JsTrue

(***************************************************************************)
(* Properties of WindowManager (SpecWindows)                               *)
(***************************************************************************)
IsAlias(name) == startswith(name, WinSerPrefix) /\ name # WinSerLocal

IsOpen(h) == \E i \in 1..Len(handles) : handles[i] = h

\* C6: the first switch to a win_ser_ alias records the last window handle and
\* focuses it; a later switch to the alias focuses the recorded handle; an
\* entry of the registry is never changed or removed
C6_AliasRemembered ==
    [][/\ \A a \in DOMAIN windows : a \in DOMAIN windows' /\ windows'[a] = windows[a]
       /\ (win_last'.op = "switch" /\ IsAlias(win_last'.name)) =>
              LET a == win_last'.name
              IN  /\ a \in DOMAIN windows'
                  /\ a \notin DOMAIN windows =>
                         /\ windows'[a] = handles[Len(handles)]
                         /\ focus' = handles[Len(handles)]
                         /\ win_last'.exc = "none"
                  /\ (a \in DOMAIN windows /\ IsOpen(windows[a])) =>
                         /\ focus' = windows[a]
                         /\ win_last'.exc = "none"]_vars

\* a switch back to an alias whose window is no longer the latest one
C6_Witness ==
    /\ win_last.op = "switch"
    /\ IsAlias(win_last.name)
    /\ win_last.exc = "none"
    /\ focus = windows[win_last.name]
    /\ focus # handles[Len(handles)]
    /\ focus # win_last.focus_before

\* C7: switch("<n>") focuses the handle at position n when 0 <= n < number of
\* handles, and otherwise raises NoSuchWindowException naming the identifier
\* without switching
C7_SwitchByIndex ==
    (win_last.op = "switch" /\ isdigit(win_last.name)) =>
        LET n == int(win_last.name)
        IN  IF n < Len(handles)
            THEN win_last.exc = "none" /\ focus = handles[n + 1]
            ELSE /\ win_last.exc = "NoSuchWindowException"
                 /\ win_last.msg = <<"Invalid Window ID">> \o win_last.name
                 /\ focus = win_last.focus_before

====
